---------------------------- MODULE Spec2Model ----------------------------
(***************************************************************************)
(* ERAPProtocol (src/erap.py): a TCP server that gives every accepted      *)
(* client its own handler thread; all handlers run text commands against   *)
(* one shared repository guarded by one lock.                              *)
(*                                                                         *)
(* A chunk of bytes is a sequence of one-character strings; BadByte stands *)
(* for a byte that is not valid UTF-8.  Text, tokens and keys are such     *)
(* sequences too, so decoding, rstrip, split, lower and int are computed   *)
(* character by character.                                                 *)
(***************************************************************************)
EXTENDS Integers, Sequences, FiniteSets, TLC

(***************************************************************************)
(* Bounds of the model                                                     *)
(***************************************************************************)
\* chunks the clients send, all connections together, before they fall silent
MaxChunks == 3

\* the connections the listener accepts
Conns == {"c1", "c2"}

(***************************************************************************)
(* Text: bytes.decode, str.rstrip, str.split(" "), str.lower, int          *)
(***************************************************************************)
BadByte == "0xFF"

Whitespace == {" ", "\n", "\t", "\r"}

UpperCase == <<"A", "B", "C", "D", "E", "F", "G", "H", "I", "J", "K", "L", "M",
               "N", "O", "P", "Q", "R", "S", "T", "U", "V", "W", "X", "Y", "Z">>

LowerCase == <<"a", "b", "c", "d", "e", "f", "g", "h", "i", "j", "k", "l", "m",
               "n", "o", "p", "q", "r", "s", "t", "u", "v", "w", "x", "y", "z">>

Digits == <<"0", "1", "2", "3", "4", "5", "6", "7", "8", "9">>

\* data.decode() succeeds
Decodable(data) == \A i \in 1..Len(data) : data[i] # BadByte

\* str.startswith
StartsWith(s, p) == Len(s) >= Len(p) /\ SubSeq(s, 1, Len(p)) = p

\* str.rstrip(): the text up to its last character that is no whitespace
RStrip(s) ==
    LET keep == {i \in 1..Len(s) : s[i] \notin Whitespace}
    IN  IF keep = {} THEN <<>>
        ELSE SubSeq(s, 1, CHOOSE i \in keep : \A j \in keep : j <= i)

\* where tokens end: at every space, and after the last character
Cuts(s) == {i \in 1..Len(s) : s[i] = " "} \cup {Len(s) + 1}

\* the n-th of them, 0 standing before the first character
Cut(s, n) ==
    IF n = 0 THEN 0
    ELSE CHOOSE p \in Cuts(s) : Cardinality({q \in Cuts(s) : q < p}) = n - 1

\* str.split(" "): every single space separates, empty tokens are kept
Split(s) ==
    [n \in 1..Cardinality(Cuts(s)) |-> SubSeq(s, Cut(s, n - 1) + 1, Cut(s, n) - 1)]

LowerChar(ch) ==
    IF \E i \in 1..Len(UpperCase) : UpperCase[i] = ch
    THEN LowerCase[CHOOSE i \in 1..Len(UpperCase) : UpperCase[i] = ch]
    ELSE ch

\* str.lower()
Lower(s) == [i \in 1..Len(s) |-> LowerChar(s[i])]

IsDigit(ch) == \E i \in 1..Len(Digits) : Digits[i] = ch

DigitVal(ch) == (CHOOSE i \in 1..Len(Digits) : Digits[i] = ch) - 1

\* the digits of an integer literal, after an optional sign
Unsigned(tok) ==
    IF tok # <<>> /\ tok[1] \in {"-", "+"} THEN SubSeq(tok, 2, Len(tok)) ELSE tok

\* int(tok) does not raise ValueError
IsInt(tok) ==
    /\ Unsigned(tok) # <<>>
    /\ \A i \in 1..Len(Unsigned(tok)) : IsDigit(Unsigned(tok)[i])

RECURSIVE DecVal(_)
DecVal(ds) ==
    IF ds = <<>> THEN 0
    ELSE 10 * DecVal(SubSeq(ds, 1, Len(ds) - 1)) + DigitVal(ds[Len(ds)])

\* a conversion that drops the sign
ToIntUnsigned(tok) == DecVal(Unsigned(tok))

\* int(tok)
ToInt(tok) ==
    IF tok[1] = "-" THEN 0 - DecVal(Unsigned(tok)) ELSE DecVal(Unsigned(tok))

RECURSIVE DecStr(_)
DecStr(n) ==
    IF n < 10 THEN <<Digits[n + 1]>>
    ELSE Append(DecStr(n \div 10), Digits[(n % 10) + 1])

\* str(n)
IntStr(n) == IF n < 0 THEN <<"-">> \o DecStr(0 - n) ELSE DecStr(n)

\* [str(_) for _ in values]
IntStrs(vals) == [i \in 1..Len(vals) |-> IntStr(vals[i])]

(***************************************************************************)
(* Words the server compares tokens with                                   *)
(***************************************************************************)
W_add == <<"a", "d", "d">>
W_set == <<"s", "e", "t">>
W_delete == <<"d", "e", "l", "e", "t", "e">>
W_keys == <<"k", "e", "y", "s">>
W_get == <<"g", "e", "t">>
W_gets == <<"g", "e", "t", "s">>
W_aggregate == <<"a", "g", "g", "r", "e", "g", "a", "t", "e">>
W_reset == <<"r", "e", "s", "e", "t">>
W_quit == <<"q", "u", "i", "t">>
W_sum == <<"s", "u", "m">>
W_min == <<"m", "i", "n">>
W_max == <<"m", "a", "x">>

(***************************************************************************)
(* The repository (spec.md 4.3; its class is not part of src/): keys in    *)
(* insertion order, each with its sequence of integers.  A store is a      *)
(* sequence of records [k |-> key, v |-> values].                          *)
(***************************************************************************)
EmptyStore == <<>>

Has(s, key) == \E i \in 1..Len(s) : s[i].k = key

IndexOf(s, key) == CHOOSE i \in 1..Len(s) : s[i].k = key

ValuesOf(s, key) == s[IndexOf(s, key)].v

\* add(key, value): append, creating the key when absent
StoreAdd(s, key, value) ==
    IF Has(s, key)
    THEN [s EXCEPT ![IndexOf(s, key)].v = Append(@, value)]
    ELSE Append(s, [k |-> key, v |-> <<value>>])

\* set(key, values): replace the whole sequence, creating the key when absent
StoreSet(s, key, values) ==
    IF Has(s, key)
    THEN [s EXCEPT ![IndexOf(s, key)].v = values]
    ELSE Append(s, [k |-> key, v |-> values])

\* delete(key) of a present key
StoreDelete(s, key) ==
    SubSeq(s, 1, IndexOf(s, key) - 1) \o SubSeq(s, IndexOf(s, key) + 1, Len(s))

\* keys()
StoreKeys(s) == [i \in 1..Len(s) |-> s[i].k]

RECURSIVE SumOf(_)
SumOf(vals) == IF vals = <<>> THEN 0 ELSE vals[1] + SumOf(Tail(vals))

MinOf(vals) == CHOOSE m \in {vals[i] : i \in 1..Len(vals)} :
                  \A i \in 1..Len(vals) : m <= vals[i]

MaxOf(vals) == CHOOSE m \in {vals[i] : i \in 1..Len(vals)} :
                  \A i \in 1..Len(vals) : m >= vals[i]

\* the aggregate functions the repository knows
KnownFunc(func) == func \in {W_sum, W_min, W_max}

\* aggregate(key, func) has no result: unknown key or function (min and max
\* of no values count as no result)
NoAggregate(s, key, func) ==
    \/ ~Has(s, key)
    \/ ~KnownFunc(func)
    \/ (func # W_sum /\ ValuesOf(s, key) = <<>>)

Aggregate(s, key, func) ==
    IF func = W_sum THEN SumOf(ValuesOf(s, key))
    ELSE IF func = W_min THEN MinOf(ValuesOf(s, key))
    ELSE MaxOf(ValuesOf(s, key))

(***************************************************************************)
(* One store call and what it gives back: the store afterwards, the        *)
(* exception raised ("none" when it returns), whether it returned None,    *)
(* and the value returned (integers, or keys for keys()).                  *)
(***************************************************************************)
Outcome(s, exc, none, val) == [store |-> s, exc |-> exc, none |-> none, val |-> val]

StoreCall(s, call) ==
    CASE call.op = "add" ->
           Outcome(StoreAdd(s, call.key, call.ints[1]), "none", FALSE, <<>>)
      [] call.op = "set" ->
           Outcome(StoreSet(s, call.key, call.ints), "none", FALSE, <<>>)
      [] call.op = "delete" ->
           IF Has(s, call.key)
           THEN Outcome(StoreDelete(s, call.key), "none", FALSE, <<>>)
           ELSE Outcome(s, "KeyError", FALSE, <<>>)
      [] call.op = "keys" ->
           Outcome(s, "none", FALSE, StoreKeys(s))
      [] call.op = "get" ->
           IF Has(s, call.key) /\ ValuesOf(s, call.key) # <<>>
           THEN Outcome(s, "none", FALSE,
                        <<ValuesOf(s, call.key)[Len(ValuesOf(s, call.key))]>>)
           ELSE Outcome(s, "none", TRUE, <<>>)
      [] call.op = "gets" ->
           IF Has(s, call.key)
           THEN Outcome(s, "none", FALSE, ValuesOf(s, call.key))
           ELSE Outcome(s, "none", TRUE, <<>>)
      [] call.op = "aggregate" ->
           IF NoAggregate(s, call.key, call.func)
           THEN Outcome(s, "none", TRUE, <<>>)
           ELSE Outcome(s, "none", FALSE, <<Aggregate(s, call.key, call.func)>>)
      [] OTHER ->
           Outcome(EmptyStore, "none", FALSE, <<>>)

\* a store call that fails in a way the protocol does not foresee
Faulted(s) == Outcome(s, "Exception", FALSE, <<>>)

(***************************************************************************)
(* performRepositoryOperation: the parts that touch no shared state        *)
(***************************************************************************)
\* an index that yields the empty string where a token is missing
ArgOrEmpty(toks, i) ==
    IF i < Len(toks)
    THEN [exc |-> "none", tok |-> toks[i + 1]]
    ELSE [exc |-> "none", tok |-> <<>>]

\* repositoryOperation[i], Python's 0-based index
Arg(toks, i) ==
    IF i < Len(toks)
    THEN [exc |-> "none", tok |-> toks[i + 1]]
    ELSE [exc |-> "IndexError", tok |-> <<>>]

\* repositoryOperation[0].lower(), matched against the branches
OpName(toks) ==
    LET w == Lower(toks[1]) IN
    CASE w = W_add -> "add"
      [] w = W_set -> "set"
      [] w = W_delete -> "delete"
      [] w = W_keys -> "keys"
      [] w = W_get -> "get"
      [] w = W_gets -> "gets"
      [] w = W_aggregate -> "aggregate"
      [] w = W_reset -> "reset"
      [] OTHER -> "unknown"

\* [int(_) for _ in repositoryOperation[2:]] raises ValueError
BadInts(toks) == \E i \in 3..Len(toks) : ~IsInt(toks[i])

\* the values of a set command taken from the last to the first
IntListBackwards(toks) ==
    [i \in 1..(Len(toks) - 2) |-> ToInt(toks[Len(toks) + 1 - i])]

\* [int(_) for _ in repositoryOperation[2:]]
IntList(toks) == [i \in 1..(Len(toks) - 2) |-> ToInt(toks[i + 2])]

\* the values before the first one that is no integer
RECURSIVE IntPrefix(_, _)
IntPrefix(toks, i) ==
    IF i > Len(toks) \/ ~IsInt(toks[i]) THEN <<>>
    ELSE <<ToInt(toks[i])>> \o IntPrefix(toks, i + 1)

\* a set branch that converts and keeps values until one fails
SetValuesUpToFailure(toks) == [exc |-> "none", ints |-> IntPrefix(toks, 3)]

\* line 86: the values of a set command are all converted before anything
\* else happens
SetValues(toks) ==
    IF BadInts(toks) THEN [exc |-> "ValueError", ints |-> <<>>]
    ELSE [exc |-> "none", ints |-> IntList(toks)]

\* a set branch that takes the lock without looking at its values first
PreLockSkipsSetValues(toks) ==
    CASE OpName(toks) = "add" ->
           IF Arg(toks, 1).exc # "none" THEN Arg(toks, 1).exc
           ELSE IF Arg(toks, 2).exc # "none" THEN Arg(toks, 2).exc
           ELSE IF ~IsInt(Arg(toks, 2).tok) THEN "ValueError"
           ELSE "none"
      [] OpName(toks) = "set" -> Arg(toks, 1).exc
      [] OpName(toks) = "aggregate" ->
           IF Arg(toks, 1).exc # "none" THEN Arg(toks, 1).exc
           ELSE Arg(toks, 2).exc
      [] OTHER -> "none"

\* the exception raised before the lock is taken, "none" when the branch
\* reaches its `with self.repositoryLock`
PreLock(toks) ==
    CASE OpName(toks) = "add" ->
           IF Arg(toks, 1).exc # "none" THEN Arg(toks, 1).exc
           ELSE IF Arg(toks, 2).exc # "none" THEN Arg(toks, 2).exc
           ELSE IF ~IsInt(Arg(toks, 2).tok) THEN "ValueError"
           ELSE "none"
      [] OpName(toks) = "set" ->
           IF Arg(toks, 1).exc # "none" THEN Arg(toks, 1).exc
           ELSE SetValues(toks).exc
      [] OpName(toks) = "aggregate" ->
           IF Arg(toks, 1).exc # "none" THEN Arg(toks, 1).exc
           ELSE Arg(toks, 2).exc
      [] OTHER -> "none"

\* the exception raised inside the `with` block while the argument of the
\* store call is evaluated: delete, get and gets index the key there
InLock(toks) ==
    IF OpName(toks) \in {"delete", "get", "gets"} THEN Arg(toks, 1).exc ELSE "none"

\* the store call a branch makes
CallOf(toks) ==
    [op   |-> OpName(toks),
     key  |-> Arg(toks, 1).tok,
     ints |-> IF OpName(toks) = "add" THEN <<ToInt(Arg(toks, 2).tok)>>
              ELSE IF OpName(toks) = "set" THEN SetValues(toks).ints
              ELSE <<>>,
     func |-> Arg(toks, 2).tok]

(***************************************************************************)
(* Replies: the status word, the text of the format string and the values  *)
(* put into it                                                             *)
(***************************************************************************)
Reply(status, text, args) == [status |-> status, text |-> text, args |-> args]

NoReply == Reply("", "", <<>>)

\* except clauses without the one for KeyError
ExcReplyNoKeyError(exc, toks) ==
    CASE exc = "IndexError" -> Reply("ERROR", ", malformed operation {}\n", toks)
      [] exc = "ValueError" -> Reply("ERROR", ", type conversion failed in {}\n", toks)
      [] OTHER -> Reply("ERROR", ", malformed operation {}\n", toks)

\* the except clauses
ExcReply(exc, toks) ==
    CASE exc = "IndexError" -> Reply("ERROR", ", malformed operation {}\n", toks)
      [] exc = "ValueError" -> Reply("ERROR", ", type conversion failed in {}\n", toks)
      [] exc = "KeyError" -> Reply("ERROR", ", key missing in {}\n", toks)
      [] OTHER -> Reply("ERROR", ", malformed operation {}\n", toks)

\* a keys branch without the case of the empty repository
KeysReplyJoinOnly(keys) == Reply("OK", " {}, ...\n", keys)

\* the keys branch builds its reply from keys()
KeysReply(keys) ==
    IF keys # <<>> THEN Reply("OK", " {}, ...\n", keys)
    ELSE Reply("OK", ", empty repository\n", <<>>)

\* replies of branches whose get tests `if value:`, taking a 0 for None
EncodeGetTruthy(toks, out) ==
    CASE OpName(toks) = "add" ->
           Reply("OK", ", added {} -> {}\n", <<CallOf(toks).key>> \o IntStrs(CallOf(toks).ints))
      [] OpName(toks) = "set" ->
           Reply("OK", ", set {} -> [{}, ...]\n", <<CallOf(toks).key>> \o IntStrs(CallOf(toks).ints))
      [] OpName(toks) = "delete" ->
           Reply("OK", ", deleted key {}\n", <<CallOf(toks).key>>)
      [] OpName(toks) = "keys" -> KeysReply(out.val)
      [] OpName(toks) = "get" ->
           IF ~out.none /\ out.val # <<0>> THEN Reply("OK", " {}\n", IntStrs(out.val))
           ELSE Reply("ERROR", ", missing key {}\n", <<CallOf(toks).key>>)
      [] OpName(toks) = "gets" ->
           IF ~out.none THEN Reply("OK", " {}, ...\n", IntStrs(out.val))
           ELSE Reply("ERROR", ", missing key {}\n", <<CallOf(toks).key>>)
      [] OpName(toks) = "aggregate" ->
           IF ~out.none THEN Reply("OK", " {}\n", IntStrs(out.val))
           ELSE Reply("ERROR", ", missing key or function in {}\n", Tail(toks))
      [] OpName(toks) = "reset" -> Reply("OK", "\n", <<>>)
      [] OTHER -> Reply("ERROR", ", malformed operation {}\n", toks)

\* the reply of a branch whose store call returned
Encode(toks, out) ==
    CASE OpName(toks) = "add" ->
           Reply("OK", ", added {} -> {}\n", <<CallOf(toks).key>> \o IntStrs(CallOf(toks).ints))
      [] OpName(toks) = "set" ->
           Reply("OK", ", set {} -> [{}, ...]\n", <<CallOf(toks).key>> \o IntStrs(CallOf(toks).ints))
      [] OpName(toks) = "delete" ->
           Reply("OK", ", deleted key {}\n", <<CallOf(toks).key>>)
      [] OpName(toks) = "keys" -> KeysReply(out.val)
      [] OpName(toks) = "get" ->
           IF ~out.none THEN Reply("OK", " {}\n", IntStrs(out.val))
           ELSE Reply("ERROR", ", missing key {}\n", <<CallOf(toks).key>>)
      [] OpName(toks) = "gets" ->
           IF ~out.none THEN Reply("OK", " {}, ...\n", IntStrs(out.val))
           ELSE Reply("ERROR", ", missing key {}\n", <<CallOf(toks).key>>)
      [] OpName(toks) = "aggregate" ->
           IF ~out.none THEN Reply("OK", " {}\n", IntStrs(out.val))
           ELSE Reply("ERROR", ", missing key or function in {}\n", Tail(toks))
      [] OpName(toks) = "reset" -> Reply("OK", "\n", <<>>)
      [] OTHER -> Reply("ERROR", ", malformed operation {}\n", toks)

\* what performRepositoryOperation returns for a store call's outcome
ReplyOf(toks, out) ==
    IF out.exc # "none" THEN ExcReply(out.exc, toks) ELSE Encode(toks, out)

\* parseClientRequest
Tokens(data) == Split(RStrip(data))

(***************************************************************************)
(* Chunks the clients send                                                 *)
(***************************************************************************)
ADD_K_1 == <<"a", "d", "d", " ", "k", " ", "1", "\n">>
ADD_K_2 == <<"a", "d", "d", " ", "k", " ", "2", "\n">>
ADD_UPPER_K_3 == <<"A", "D", "D", " ", "k", " ", "3", "\n">>
ADD_NOARGS == <<"a", "d", "d", "\n">>
ADD_K == <<"a", "d", "d", " ", "k", "\n">>
ADD_K_X == <<"a", "d", "d", " ", "k", " ", "x", "\n">>
ADD_K_1_2 == <<"a", "d", "d", " ", "k", " ", "1", " ", "2", "\n">>
SET_K_2_1 == <<"s", "e", "t", " ", "k", " ", "2", " ", "1", "\n">>
SET_K == <<"s", "e", "t", " ", "k", "\n">>
SET_K_1_X_3 == <<"s", "e", "t", " ", "k", " ", "1", " ", "x", " ", "3", "\n">>
SET_NOARGS == <<"s", "e", "t", "\n">>
DELETE_K == <<"d", "e", "l", "e", "t", "e", " ", "k", "\n">>
DELETE_NOARGS == <<"d", "e", "l", "e", "t", "e", "\n">>
DELETE_K_J == <<"d", "e", "l", "e", "t", "e", " ", "k", " ", "j", "\n">>
KEYS == <<"k", "e", "y", "s", "\n">>
KEYS_X == <<"k", "e", "y", "s", " ", "x", "\n">>
GET_K == <<"g", "e", "t", " ", "k", "\n">>
GET_NOARGS == <<"g", "e", "t", "\n">>
GETS_K == <<"g", "e", "t", "s", " ", "k", "\n">>
AGG_K_SUM == <<"a", "g", "g", "r", "e", "g", "a", "t", "e", " ", "k", " ", "s", "u", "m", "\n">>
AGG_K_NOPE == <<"a", "g", "g", "r", "e", "g", "a", "t", "e", " ", "k", " ", "n", "o", "p", "e", "\n">>
AGG_K == <<"a", "g", "g", "r", "e", "g", "a", "t", "e", " ", "k", "\n">>
RESET == <<"r", "e", "s", "e", "t", "\n">>
RESET_X == <<"r", "e", "s", "e", "t", " ", "x", "\n">>
QUIT == <<"q", "u", "i", "t", "\n">>
QUIT_UPPER == <<"Q", "U", "I", "T", "\n">>
QUITX == <<"q", "u", "i", "t", "x", " ", "1", "\n">>
BOGUS == <<"b", "o", "g", "u", "s", " ", "k", "\n">>
BLANK == <<"\n">>

ADD_K_0 == <<"a", "d", "d", " ", "k", " ", "0", "\n">>
ADD_K_NEG2 == <<"a", "d", "d", " ", "k", " ", "-", "2", "\n">>
ADD_J_1 == <<"a", "d", "d", " ", "j", " ", "1", "\n">>
SET_K_3_1_2 == <<"s", "e", "t", " ", "k", " ", "3", " ", "1", " ", "2", "\n">>

RECURSIVE SumOver(_, _)
SumOver(f, S) ==
    IF S = {} THEN 0
    ELSE LET x == CHOOSE y \in S : TRUE IN f[x] + SumOver(f, S \ {x})

\* a zero-length read: the peer closed the stream
EOF == <<>>

\* bytes that are not UTF-8
BAD == <<BadByte, "\n">>

\* every operation, with well-formed arguments
MenuOps ==
    {ADD_K_1, ADD_K_2, SET_K_2_1, DELETE_K, KEYS, GET_K, GETS_K, AGG_K_SUM,
     RESET, EOF, BAD}

\* termination, undecodable input and commands that fail
MenuConn ==
    {QUIT, QUIT_UPPER, QUITX, EOF, BAD, BLANK, BOGUS, KEYS, ADD_K_1, ADD_K_X,
     ADD_NOARGS, DELETE_K, GET_K, AGG_K_NOPE}

\* a few of them, for runs under fair scheduling
MenuLive == {QUITX, EOF, BAD, BOGUS, KEYS}

\* commands with too few, too many and ill-typed arguments
MenuArgs ==
    {ADD_NOARGS, ADD_K, ADD_K_1_2, SET_K_2_1, SET_K_1_X_3, SET_NOARGS,
     DELETE_NOARGS, AGG_K, KEYS, RESET_X, EOF, BAD}

\* adds to one key, its removal and the two queries of it
MenuAdds == {ADD_K_1, ADD_K_NEG2, DELETE_K, GET_K, GETS_K, KEYS, EOF, BAD}

\* adds and sets on one key, and the two queries of it
MenuSeq == {ADD_K_0, SET_K_3_1_2, SET_K, GET_K, GETS_K, KEYS, EOF, BAD}

\* commands that fail before the lock, inside it and in the store, next to
\* commands that change the store
MenuErr ==
    {ADD_K_1, ADD_K_X, SET_K_2_1, SET_K_1_X_3, DELETE_K, DELETE_NOARGS, GET_K,
     AGG_K_NOPE, KEYS, BOGUS, EOF, BAD}

\* two keys that come and go, and the listing of the keys
MenuKeys == {ADD_K_1, ADD_J_1, DELETE_K, KEYS, RESET, EOF, BAD}

(***************************************************************************)
(* State                                                                   *)
(***************************************************************************)
VARIABLES
    menu,       \* the chunks the clients of this run may send
    faults,     \* {FALSE}, or BOOLEAN when the repository of this run may fail
    store,      \* self.repository
    lock,       \* self.repositoryLock: "free" or the handler holding it
    listener,   \* where the accept loop is: the connection it has accepted
                \* and the step of ListenerOrder it takes next
    pc,         \* where each connection's handler is
    sock,       \* each connection's socket: "none", "open", "closed"
    greeted,    \* the greeting was written to the connection
    data,       \* the handler's last chunk read
    repositoryOperation, \* the tokens parsed from it, <<>> until it is parsed
    nrecv,      \* chunks the handler has read
    nsent,      \* replies the handler has written
    snap,       \* what the running store call has read of the store
    result,     \* what the store call gave back, until the reply is built
    reply,      \* the reply built for the last chunk
    fault,      \* the running store call fails unforeseeably
    seqStore,   \* the store of a sequential repository that runs each
                \* command at the moment its handler takes the lock
    expect,     \* the reply that sequential repository gives
    journal,    \* this run keeps the record `applied`
    applied     \* the commands that took the lock, in the order they took it

vars == <<menu, faults, store, lock, listener, pc, sock, greeted, data,
          repositoryOperation, nrecv, nsent, snap, result, reply, fault, seqStore,
          expect, journal, applied>>

NoResult == [exc |-> "unset", none |-> FALSE, val |-> <<>>]

ResultOf(out) == [exc |-> out.exc, none |-> out.none, val |-> out.val]

\* line 53: the chunk ends the connection
Terminates(d) == Len(d) = 0 \/ StartsWith(d, W_quit)

\* a lock that never makes anyone wait
LockNeverHeld == TRUE

\* `with self.repositoryLock` may enter
LockFree == lock = "free"

\* a handler that logs errors and goes back to reading
SkipErrorReplies(r) == IF r.status = "ERROR" THEN "recv" ELSE "send"

\* handle_client, lines 63-64: the result of performRepositoryOperation is
\* sent next
AfterPerform(r) == "send"

\* a handler that gives up the connection after an error reply
CloseAfterError(r) == IF r.status = "ERROR" THEN "closed" ELSE "recv"

\* handle_client, line 45: after conn.send the loop reads again
AfterSend(r) == "recv"

Mutates(op) == op \in {"add", "set", "delete", "reset"}

\* the lock section of a command run in one piece on store s
Sequential(s, toks, f) ==
    IF InLock(toks) # "none"
    THEN [store |-> s, reply |-> ExcReply(InLock(toks), toks)]
    ELSE LET out == IF f THEN Faulted(s) ELSE StoreCall(s, CallOf(toks))
         IN  [store |-> out.store, reply |-> ReplyOf(toks, out)]

\* the accept loop waits in accept()
Accepting == [conn |-> "none", at |-> 0]

\* a loop that starts the handler before it writes the greeting
StartBeforeGreet == <<"start", "greet">>

\* lines 38-41: what the accept loop does with an accepted connection
ListenerOrder == <<"greet", "start">>

\* the accept loop after one of these steps
ListenerAfter(l) ==
    IF l.at < Len(ListenerOrder) THEN [l EXCEPT !.at = @ + 1] ELSE Accepting

InitRun(m, fs, j) ==
    /\ menu = m
    /\ faults = fs
    /\ journal = j
    /\ store = EmptyStore
    /\ lock = "free"
    /\ listener = Accepting
    /\ pc = [c \in Conns |-> "idle"]
    /\ sock = [c \in Conns |-> "none"]
    /\ greeted = [c \in Conns |-> FALSE]
    /\ data = [c \in Conns |-> <<>>]
    /\ repositoryOperation = [c \in Conns |-> <<>>]
    /\ nrecv = [c \in Conns |-> 0]
    /\ nsent = [c \in Conns |-> 0]
    /\ snap = [c \in Conns |-> EmptyStore]
    /\ result = [c \in Conns |-> NoResult]
    /\ reply = [c \in Conns |-> NoReply]
    /\ fault = [c \in Conns |-> FALSE]
    /\ seqStore = EmptyStore
    /\ expect = [c \in Conns |-> NoReply]
    /\ applied = <<>>

\* a run that keeps no record of the commands applied
InitWith(m, fs) == InitRun(m, fs, FALSE)

(***************************************************************************)
(* tcp_listener: one pass of the accept loop, lines 34-41                  *)
(***************************************************************************)
\* line 34: accept() returns a connection
Accept(c) ==
    /\ listener = Accepting
    /\ pc[c] = "idle"
    /\ sock[c] = "none"
    /\ sock' = [sock EXCEPT ![c] = "open"]
    /\ listener' = [conn |-> c, at |-> 1]
    /\ UNCHANGED <<journal, applied, menu, faults, repositoryOperation, store, lock, pc, greeted,
                   data, nrecv, nsent, snap, result, reply, fault, seqStore, expect>>

\* line 38: the greeting is written to the accepted connection
Greet(c) ==
    /\ listener.conn = c
    /\ ListenerOrder[listener.at] = "greet"
    /\ greeted' = [greeted EXCEPT ![c] = TRUE]
    /\ listener' = ListenerAfter(listener)
    /\ UNCHANGED <<journal, applied, menu, faults, repositoryOperation, store, lock, pc, sock,
                   data, nrecv, nsent, snap, result, reply, fault, seqStore, expect>>

\* line 41: t.start(), the connection's handler begins with its first read
Start(c) ==
    /\ listener.conn = c
    /\ ListenerOrder[listener.at] = "start"
    /\ pc' = [pc EXCEPT ![c] = "recv"]
    /\ listener' = ListenerAfter(listener)
    /\ UNCHANGED <<journal, applied, menu, faults, repositoryOperation, store, lock, sock,
                   greeted, data, nrecv, nsent, snap, result, reply, fault, seqStore,
                   expect>>

(***************************************************************************)
(* handle_client                                                           *)
(***************************************************************************)
\* line 47: conn.recv returns a chunk
Recv(c) ==
    /\ pc[c] = "recv"
    /\ SumOver(nrecv, Conns) < MaxChunks
    /\ \E d \in menu : data' = [data EXCEPT ![c] = d]
    /\ repositoryOperation' = [repositoryOperation EXCEPT ![c] = <<>>]
    /\ nrecv' = [nrecv EXCEPT ![c] = @ + 1]
    /\ reply' = [reply EXCEPT ![c] = NoReply]
    /\ expect' = [expect EXCEPT ![c] = NoReply]
    /\ pc' = [pc EXCEPT ![c] = "check"]
    /\ UNCHANGED <<journal, applied, listener, menu, faults, store, lock, sock, greeted, nsent, snap, result,
                   fault, seqStore>>

\* line 49: data.decode() raises UnicodeDecodeError, which nothing catches
Crash(c) ==
    /\ pc[c] = "check"
    /\ ~Decodable(data[c])
    /\ pc' = [pc EXCEPT ![c] = "crashed"]
    /\ UNCHANGED <<journal, applied, listener, menu, faults, repositoryOperation, store, lock, sock, greeted, data, nrecv, nsent, snap,
                   result, reply, fault, seqStore, expect>>

\* lines 53-59: close and leave the loop
Close(c) ==
    /\ pc[c] = "check"
    /\ Decodable(data[c])
    /\ Terminates(data[c])
    /\ sock' = [sock EXCEPT ![c] = "closed"]
    /\ pc' = [pc EXCEPT ![c] = "closed"]
    /\ UNCHANGED <<journal, applied, listener, menu, faults, repositoryOperation, store, lock, greeted, data, nrecv, nsent, snap, result,
                   reply, fault, seqStore, expect>>

\* line 61: parseClientRequest
Parse(c) ==
    /\ pc[c] = "check"
    /\ Decodable(data[c])
    /\ ~Terminates(data[c])
    /\ repositoryOperation' = [repositoryOperation EXCEPT ![c] = Tokens(data[c])]
    /\ pc' = [pc EXCEPT ![c] = "parsed"]
    /\ UNCHANGED <<journal, applied, listener, menu, faults, store, lock, sock, greeted, data, nrecv, nsent,
                   snap, result, reply, fault, seqStore, expect>>

\* lines 63 and 76-79, 86, 123, 136-144: performRepositoryOperation runs the
\* branch up to its lock, or to the reply of a command that never takes it
Dispatch(c) ==
    /\ pc[c] = "parsed"
    /\ IF OpName(repositoryOperation[c]) = "unknown"
       THEN /\ reply' = [reply EXCEPT ![c] = Encode(repositoryOperation[c], NoResult)]
            /\ pc' = [pc EXCEPT ![c] =
                         AfterPerform(Encode(repositoryOperation[c], NoResult))]
       ELSE IF PreLock(repositoryOperation[c]) # "none"
       THEN /\ reply' = [reply EXCEPT ![c] =
                            ExcReply(PreLock(repositoryOperation[c]),
                                     repositoryOperation[c])]
            /\ pc' = [pc EXCEPT ![c] =
                         AfterPerform(ExcReply(PreLock(repositoryOperation[c]),
                                               repositoryOperation[c]))]
       ELSE /\ pc' = [pc EXCEPT ![c] = "acquire"]
            /\ UNCHANGED reply
    /\ UNCHANGED <<journal, applied, listener, menu, faults, store, lock, sock, greeted, data,
                   repositoryOperation, nrecv, nsent, snap, result, fault,
                   seqStore, expect>>

\* `with self.repositoryLock:` is entered
Acquire(c) ==
    /\ pc[c] = "acquire"
    /\ LockFree
    /\ lock' = c
    /\ pc' = [pc EXCEPT ![c] = "call"]
    /\ LET toks == repositoryOperation[c] IN
       \E f \in (IF InLock(toks) # "none" THEN {FALSE} ELSE faults) :
          /\ fault' = [fault EXCEPT ![c] = f]
          /\ seqStore' = Sequential(seqStore, toks, f).store
          /\ expect' = [expect EXCEPT ![c] = Sequential(seqStore, toks, f).reply]
    /\ applied' = IF journal
                  THEN Append(applied, [conn |-> c, toks |-> repositoryOperation[c]])
                  ELSE applied
    /\ UNCHANGED <<journal, listener, menu, faults, repositoryOperation, store, sock, greeted, data, nrecv, nsent, snap, result,
                   reply>>

\* inside the lock: the argument of the store call is evaluated and the call
\* begins, reading the store
CallEnter(c) ==
    /\ pc[c] = "call"
    /\ LET toks == repositoryOperation[c] IN
       IF InLock(toks) # "none"
       THEN /\ result' = [result EXCEPT ![c] =
                             [exc |-> InLock(toks), none |-> FALSE, val |-> <<>>]]
            /\ pc' = [pc EXCEPT ![c] = "release"]
            /\ UNCHANGED snap
       ELSE /\ snap' = [snap EXCEPT ![c] = store]
            /\ pc' = [pc EXCEPT ![c] = "incall"]
            /\ UNCHANGED result
    /\ UNCHANGED <<journal, applied, listener, menu, faults, repositoryOperation, store, lock, sock, greeted, data, nrecv, nsent, reply,
                   fault, seqStore, expect>>

\* the store call writes what it changed and returns; the keys branch builds
\* its reply here, still inside the lock (lines 98-101)
CallReturn(c) ==
    /\ pc[c] = "incall"
    /\ LET toks == repositoryOperation[c]
           out  == IF fault[c] THEN Faulted(snap[c])
                   ELSE StoreCall(snap[c], CallOf(toks))
       IN  /\ store' = IF out.exc = "none" /\ Mutates(OpName(toks))
                       THEN out.store ELSE store
           /\ result' = [result EXCEPT ![c] = ResultOf(out)]
           /\ reply' = [reply EXCEPT ![c] =
                           IF OpName(toks) = "keys" /\ out.exc = "none"
                           THEN KeysReply(out.val) ELSE @]
    /\ pc' = [pc EXCEPT ![c] = "release"]
    /\ UNCHANGED <<journal, applied, listener, menu, faults, repositoryOperation, lock, sock, greeted, data, nrecv, nsent, fault,
                   snap, seqStore, expect>>

\* a lock section that gives the lock back only when it is left by return
ReleaseUnlessRaised(c) ==
    /\ pc[c] = "release"
    /\ lock' = IF result[c].exc = "none" THEN "free" ELSE lock
    /\ LET toks == repositoryOperation[c] IN
       IF OpName(toks) = "keys" /\ result[c].exc = "none"
       THEN /\ pc' = [pc EXCEPT ![c] = "log"]
            /\ UNCHANGED reply
       ELSE /\ reply' = [reply EXCEPT ![c] = ReplyOf(toks, result[c])]
            /\ pc' = [pc EXCEPT ![c] = AfterPerform(ReplyOf(toks, result[c]))]
    /\ result' = [result EXCEPT ![c] = NoResult]
    /\ fault' = [fault EXCEPT ![c] = FALSE]
    /\ snap' = [snap EXCEPT ![c] = EmptyStore]
    /\ UNCHANGED <<journal, applied, listener, menu, faults, repositoryOperation, store,
                   sock, greeted, data, nrecv, nsent, seqStore, expect>>

\* the `with` block is left, by return or by exception; every branch but
\* keys then builds its reply
Release(c) ==
    /\ pc[c] = "release"
    /\ lock' = "free"
    /\ LET toks == repositoryOperation[c] IN
       IF OpName(toks) = "keys" /\ result[c].exc = "none"
       THEN /\ pc' = [pc EXCEPT ![c] = "log"]
            /\ UNCHANGED reply
       ELSE /\ reply' = [reply EXCEPT ![c] = ReplyOf(toks, result[c])]
            /\ pc' = [pc EXCEPT ![c] = AfterPerform(ReplyOf(toks, result[c]))]
    /\ result' = [result EXCEPT ![c] = NoResult]
    /\ fault' = [fault EXCEPT ![c] = FALSE]
    /\ snap' = [snap EXCEPT ![c] = EmptyStore]
    /\ UNCHANGED <<journal, applied, listener, menu, faults, repositoryOperation, store, sock, greeted, data, nrecv, nsent,
                   seqStore, expect>>

\* line 102: the keys branch calls self.repository.keys() again for its log
\* line, after the `with` block
KeysLogEnter(c) ==
    /\ pc[c] = "log"
    /\ pc' = [pc EXCEPT ![c] = "logging"]
    /\ UNCHANGED <<journal, applied, listener, menu, faults, repositoryOperation, store, lock, sock, greeted, data, nrecv, nsent, snap,
                   result, reply, fault, seqStore, expect>>

\* lines 102-103: that call returns, the reply built before is returned
KeysLogReturn(c) ==
    /\ pc[c] = "logging"
    /\ pc' = [pc EXCEPT ![c] = AfterPerform(reply[c])]
    /\ UNCHANGED <<journal, applied, listener, menu, faults, repositoryOperation, store, lock, sock, greeted, data, nrecv, nsent, snap,
                   result, reply, fault, seqStore, expect>>

\* line 64: conn.send(result)
Send(c) ==
    /\ pc[c] = "send"
    /\ nsent' = [nsent EXCEPT ![c] = @ + 1]
    /\ pc' = [pc EXCEPT ![c] = AfterSend(reply[c])]
    /\ UNCHANGED <<journal, applied, listener, menu, faults, repositoryOperation, store, lock, sock, greeted, data, nrecv, snap, result,
                   reply, fault, seqStore, expect>>

Next ==
    \E c \in Conns :
        \/ Accept(c)
        \/ Greet(c)
        \/ Start(c)
        \/ Recv(c)
        \/ Crash(c)
        \/ Close(c)
        \/ Parse(c)
        \/ Dispatch(c)
        \/ Acquire(c)
        \/ CallEnter(c)
        \/ CallReturn(c)
        \/ Release(c)
        \/ KeysLogEnter(c)
        \/ KeysLogReturn(c)
        \/ Send(c)

\* clients that use every operation
Spec == InitWith(MenuOps, {FALSE}) /\ [][Next]_vars

\* clients that quit, disconnect, send garbage and send failing commands
SpecConn == InitWith(MenuConn, BOOLEAN) /\ [][Next]_vars

\* clients that send commands with wrong arguments
SpecArgs == InitWith(MenuArgs, {FALSE}) /\ [][Next]_vars

\* clients that add to one key, remove it and ask for its sequence; the
\* commands applied are recorded
SpecAdds == InitRun(MenuAdds, {FALSE}, TRUE) /\ [][Next]_vars

\* clients that build up one key's sequence and query it; the commands
\* applied are recorded
SpecSeq == InitRun(MenuSeq, {FALSE}, TRUE) /\ [][Next]_vars

\* clients that add and remove keys and list them; the commands applied are
\* recorded
SpecKeys == InitRun(MenuKeys, {FALSE}, TRUE) /\ [][Next]_vars

\* clients whose commands fail in every way, on a repository that may fail
SpecErr == InitRun(MenuErr, BOOLEAN, FALSE) /\ [][Next]_vars

\* what a handler thread does by itself, given the processor
Step(c) ==
    \/ Crash(c)
    \/ Close(c)
    \/ Parse(c)
    \/ Dispatch(c)
    \/ CallEnter(c)
    \/ CallReturn(c)
    \/ Release(c)
    \/ KeysLogEnter(c)
    \/ KeysLogReturn(c)
    \/ Send(c)

\* fair scheduling: a handler that can run does run, and a handler that
\* waits for the lock gets it if it is free again and again
SpecFair ==
    /\ InitWith(MenuLive, BOOLEAN)
    /\ [][Next]_vars
    /\ \A c \in Conns : WF_vars(Step(c)) /\ SF_vars(Acquire(c))

(***************************************************************************)
(* Properties                                                              *)
(***************************************************************************)
K == <<"k">>

\* handler c has read a chunk and is past deciding what to do with it
Past(c) == nrecv[c] > 0 /\ pc[c] \notin {"check", "parsed"}

\* handler c has answered every chunk it read and waits for the next
Answered(c) == nrecv[c] > 0 /\ pc[c] = "recv" /\ nsent[c] = nrecv[c]

\* handler c is inside a call on the repository
InStoreCall(c) == pc[c] \in {"incall", "logging"}

\* handler c is somewhere between reading a chunk and writing its reply
Busy(c) ==
    pc[c] \in {"check", "parsed", "acquire", "call", "incall", "release", "log",
               "logging", "send"}

Malformed(toks) == Reply("ERROR", ", malformed operation {}\n", toks)

TypeConversion(toks) == Reply("ERROR", ", type conversion failed in {}\n", toks)

\* C1: when one connection's only command is `add k 1` and the other's only
\* command is `add k 2`, on an empty store, and both have their replies,
\* k holds exactly the two values 1 and 2, in either order.
C1_NoLostUpdate ==
    \A a, b \in Conns :
        ( /\ a # b
          /\ \A c \in Conns \ {a, b} : nrecv[c] = 0
          /\ nrecv[a] = 1 /\ data[a] = ADD_K_1 /\ nsent[a] = 1
          /\ nrecv[b] = 1 /\ data[b] = ADD_K_2 /\ nsent[b] = 1 )
        => /\ Has(store, K)
           /\ ValuesOf(store, K) \in {<<1, 2>>, <<2, 1>>}

\* C1 witness: both adds are answered, the second connection's value first
C1_Witness ==
    /\ nrecv["c1"] = 1 /\ data["c1"] = ADD_K_1 /\ nsent["c1"] = 1
    /\ nrecv["c2"] = 1 /\ data["c2"] = ADD_K_2 /\ nsent["c2"] = 1
    /\ store = <<[k |-> K, v |-> <<2, 1>>]>>

\* C2: whenever no handler is inside the lock the store equals that of the
\* sequential repository that ran the same commands in lock order, and every
\* reply built for a command that took the lock is the reply the sequential
\* repository gave.
C2_Serializable ==
    /\ lock = "free" => store = seqStore
    /\ \A c \in Conns :
          (expect[c] # NoReply /\ pc[c] \in {"log", "logging", "send", "recv"})
          => reply[c] = expect[c]

\* C2 witness: c1, whose only command is `get k`, is answered with the value
\* that c2 added
C2_Witness ==
    /\ nrecv["c1"] = 1 /\ data["c1"] = GET_K /\ Answered("c1")
    /\ reply["c1"] = Reply("OK", " {}\n", <<<<"1">>>>)
    /\ expect["c1"] = reply["c1"]
    /\ data["c2"] = ADD_K_1

\* C3: a handler inside a call on the repository holds the lock (so no two
\* handlers are inside store calls together).
C3_StoreCallsLocked == \A c \in Conns : InStoreCall(c) => lock = c

\* C4: a handler writes at most one reply per chunk, it is blocked in its
\* read only when every chunk it read has been answered, and while it works
\* on a chunk exactly that one reply is outstanding.
C4_OneReplyPerChunk ==
    \A c \in Conns :
        /\ nsent[c] <= nrecv[c]
        /\ nrecv[c] <= nsent[c] + 1
        /\ pc[c] = "recv" => nsent[c] = nrecv[c]
        /\ Busy(c) => nsent[c] + 1 = nrecv[c]

\* C4 witness: a handler has performed its second read, after one reply
C4_Witness ==
    \E c \in Conns : pc[c] = "check" /\ nrecv[c] = 2 /\ nsent[c] = 1

\* the first token of a decodable chunk, in lower case, is quit
FirstTokenQuit(d) == Lower(Tokens(d)[1]) = W_quit

\* handler c holds a decoded command other than quit that it has not answered
Unanswered(c) ==
    /\ Past(c)
    /\ Decodable(data[c])
    /\ data[c] # EOF
    /\ ~FirstTokenQuit(data[c])
    /\ nsent[c] < nrecv[c]

\* C5: under fair scheduling every decoded command other than quit is
\* eventually answered on its connection.
C5_EveryCommandAnswered ==
    \A c \in Conns : Unanswered(c) ~> (nsent[c] = nrecv[c])

\* C6: a decoded line whose first token is quit in any letter case, and a
\* zero-length read, close the socket and end the handler with no reply.
C6_QuitAnyCaseCloses ==
    \A c \in Conns :
        (Past(c) /\ Decodable(data[c])
                 /\ (data[c] = EOF \/ FirstTokenQuit(data[c])))
        => pc[c] = "closed" /\ sock[c] = "closed" /\ reply[c] = NoReply

\* C7: after a chunk that is not UTF-8 the handler is back in its read, with
\* the socket open and no reply written.
C7_UndecodableDropped ==
    \A c \in Conns :
        (Past(c) /\ ~Decodable(data[c]))
        => pc[c] = "recv" /\ sock[c] = "open" /\ reply[c] = NoReply

\* C8: a handler whose command got an ERROR reply is about to send it or
\* has sent it and is reading the next command, its socket open.
C8_ErrorKeepsConnection ==
    \A c \in Conns :
        reply[c].status = "ERROR"
        => pc[c] \in {"send", "recv"} /\ sock[c] = "open"

\* C8 witness: a keys command whose store call failed was answered with an
\* ERROR and the handler reads on
C8_Witness ==
    \E c \in Conns :
        /\ Answered(c) /\ data[c] = KEYS
        /\ reply[c] = Malformed(Tokens(KEYS))
        /\ sock[c] = "open"

\* handler c has parsed the chunk it works on, or has answered
Parsed(c) == repositoryOperation[c] # <<>>

\* the tokens of a set command with a key and a value that is no integer
BadSet(toks) ==
    /\ OpName(toks) = "set"
    /\ \E i \in 3..Len(toks) : ~IsInt(toks[i])

\* C9: a set command with a non-integer value never reaches the lock, it is
\* answered with the type-conversion error, and no step its handler takes
\* for it changes the store.
C9_SetAtomic ==
    /\ [](\A c \in Conns :
            (Parsed(c) /\ BadSet(repositoryOperation[c]))
            => /\ pc[c] \in {"parsed", "send", "recv"}
               /\ pc[c] \in {"send", "recv"}
                  => reply[c] = TypeConversion(repositoryOperation[c]))
    /\ [][\A c \in Conns :
            (Parsed(c) /\ BadSet(repositoryOperation[c]) /\ pc'[c] # pc[c])
            => store' = store]_vars

\* C9 witness: `set k 1 x 3` was refused while k holds an earlier sequence
C9_Witness ==
    \E c \in Conns :
        /\ Answered(c) /\ data[c] = SET_K_1_X_3
        /\ reply[c] = TypeConversion(<<W_set, K, <<"1">>, <<"x">>, <<"3">>>>)
        /\ store = <<[k |-> K, v |-> <<2, 1>>]>>

\* the number of arguments a command carries
ArgCount(toks) == Len(toks) - 1

WrongArgCount(toks) ==
    CASE OpName(toks) = "add" -> ArgCount(toks) # 2
      [] OpName(toks) = "set" -> ArgCount(toks) < 1
      [] OpName(toks) \in {"delete", "get", "gets"} -> ArgCount(toks) # 1
      [] OpName(toks) = "aggregate" -> ArgCount(toks) # 2
      [] OpName(toks) \in {"keys", "reset"} -> ArgCount(toks) # 0
      [] OTHER -> FALSE

TooFewArgs(toks) ==
    CASE OpName(toks) = "add" -> ArgCount(toks) < 2
      [] OpName(toks) = "set" -> ArgCount(toks) < 1
      [] OpName(toks) \in {"delete", "get", "gets"} -> ArgCount(toks) < 1
      [] OpName(toks) = "aggregate" -> ArgCount(toks) < 2
      [] OTHER -> FALSE

IsAdd(toks, key) == Len(toks) = 3 /\ toks[1] = W_add /\ toks[2] = key

IsSet(toks, key) == Len(toks) >= 2 /\ toks[1] = W_set /\ toks[2] = key

IsDelete(toks, key) == Len(toks) = 2 /\ toks[1] = W_delete /\ toks[2] = key

IsReset(toks) == toks = <<W_reset>>

\* the place in the record of the command handler c took the lock for last
Mine(c) ==
    CHOOSE i \in 1..Len(applied) :
        /\ applied[i].conn = c
        /\ \A j \in (i + 1)..Len(applied) : applied[j].conn # c

\* the command handler c works on took the lock and has its reply
Replied(c) ==
    /\ pc[c] \in {"send", "recv"}
    /\ expect[c] # NoReply
    /\ \E i \in 1..Len(applied) : applied[i].conn = c

\* the values added to key by the first n commands of record h since the
\* key was last absent, and whether adds alone put them there
RECURSIVE AddRun(_, _, _)
AddRun(h, n, key) ==
    IF n = 0 THEN [pure |-> TRUE, vals |-> <<>>]
    ELSE LET prev == AddRun(h, n - 1, key) IN
         IF IsAdd(h[n].toks, key) THEN [prev EXCEPT !.vals = Append(@, h[n].toks[3])]
         ELSE IF IsSet(h[n].toks, key) THEN [pure |-> FALSE, vals |-> <<>>]
         ELSE IF IsDelete(h[n].toks, key) \/ IsReset(h[n].toks)
         THEN [pure |-> TRUE, vals |-> <<>>]
         ELSE prev

\* C11: when `gets k` is answered and, in the order the commands took the
\* lock, the commands on k since k was last absent are the adds of v1, ..., vn
\* (n >= 1), the reply is OK with exactly v1, ..., vn in that order.
C11_GetsReturnsAppendOrder ==
    \A c \in Conns :
        (Replied(c) /\ repositoryOperation[c] = <<W_gets, K>>)
        => LET run == AddRun(applied, Mine(c) - 1, K) IN
           (run.pure /\ run.vals # <<>>)
           => reply[c] = Reply("OK", " {}, ...\n", run.vals)

\* C11 witness: one connection deleted nothing, added 1 and then -2 to the
\* fresh key k and was told so by `gets k`
C11_Witness ==
    /\ Answered("c1") /\ nrecv["c1"] = 3
    /\ applied = << [conn |-> "c1", toks |-> <<W_add, K, <<"1">>>>],
                    [conn |-> "c1", toks |-> <<W_add, K, <<"-", "2">>>>],
                    [conn |-> "c1", toks |-> <<W_gets, K>>] >>
    /\ reply["c1"] = Reply("OK", " {}, ...\n", << <<"1">>, <<"-", "2">> >>)

\* the command changes key's sequence, or may: add, set, delete, reset
Touches(toks, key) ==
    IsAdd(toks, key) \/ IsSet(toks, key) \/ IsDelete(toks, key) \/ IsReset(toks)

\* the last of the first n commands of record h that touches key, 0 if none
LastTouch(h, n, key) ==
    LET S == {i \in 1..n : Touches(h[i].toks, key)}
    IN  IF S = {} THEN 0 ELSE CHOOSE i \in S : \A j \in S : j <= i

\* C12: when `gets k` is answered and the last command on k that took the
\* lock before it is `set k v1 ... vn`, the reply is OK with exactly
\* v1, ..., vn, whatever k held before the set.
C12_SetReplacesSequence ==
    \A c \in Conns :
        (Replied(c) /\ repositoryOperation[c] = <<W_gets, K>>)
        => LET j == LastTouch(applied, Mine(c) - 1, K) IN
           (j > 0 /\ IsSet(applied[j].toks, K))
           => reply[c] = Reply("OK", " {}, ...\n",
                               SubSeq(applied[j].toks, 3, Len(applied[j].toks)))

\* C12 witness: k held the 0 another connection added, `set k 3 1 2` replaced
\* it and `gets k` replied 3, 1, 2
C12_Witness ==
    /\ Answered("c1") /\ nrecv["c1"] = 2
    /\ applied = << [conn |-> "c2", toks |-> <<W_add, K, <<"0">>>>],
                    [conn |-> "c1", toks |-> <<W_set, K, <<"3">>, <<"1">>, <<"2">>>>],
                    [conn |-> "c1", toks |-> <<W_gets, K>>] >>
    /\ reply["c1"] = Reply("OK", " {}, ...\n", << <<"3">>, <<"1">>, <<"2">> >>)

\* key's sequence after the first n commands of record h, <<>> when the key
\* is absent or holds no value
RECURSIVE KeySeq(_, _, _)
KeySeq(h, n, key) ==
    IF n = 0 THEN <<>>
    ELSE IF IsAdd(h[n].toks, key) THEN Append(KeySeq(h, n - 1, key), h[n].toks[3])
    ELSE IF IsSet(h[n].toks, key) THEN SubSeq(h[n].toks, 3, Len(h[n].toks))
    ELSE IF IsDelete(h[n].toks, key) \/ IsReset(h[n].toks) THEN <<>>
    ELSE KeySeq(h, n - 1, key)

\* C13: `get k` never ends its handler; its reply is OK with the last element
\* of the sequence the adds and sets before it left for k, and
\* `ERROR, missing key k` when k is absent or that sequence is empty.
C13_GetReturnsLast ==
    \A c \in Conns :
        repositoryOperation[c] = <<W_get, K>>
        => /\ pc[c] \notin {"closed", "crashed"}
           /\ sock[c] = "open"
           /\ Replied(c)
              => LET cur == KeySeq(applied, Mine(c) - 1, K) IN
                 reply[c] = IF cur # <<>>
                            THEN Reply("OK", " {}\n", <<cur[Len(cur)]>>)
                            ELSE Reply("ERROR", ", missing key {}\n", <<K>>)

\* C13 witness: after `set k 3 1 2` and `add k 0`, `get k` replied OK 0
C13_Witness ==
    /\ Answered("c1") /\ nrecv["c1"] = 3
    /\ applied = << [conn |-> "c1", toks |-> <<W_set, K, <<"3">>, <<"1">>, <<"2">>>>],
                    [conn |-> "c1", toks |-> <<W_add, K, <<"0">>>>],
                    [conn |-> "c1", toks |-> <<W_get, K>>] >>
    /\ reply["c1"] = Reply("OK", " {}\n", << <<"0">> >>)

\* key is present after the first n commands of record h
RECURSIVE KeyPresent(_, _, _)
KeyPresent(h, n, key) ==
    IF n = 0 THEN FALSE
    ELSE IF IsAdd(h[n].toks, key) \/ IsSet(h[n].toks, key) THEN TRUE
    ELSE IF IsDelete(h[n].toks, key) \/ IsReset(h[n].toks) THEN FALSE
    ELSE KeyPresent(h, n - 1, key)

KeyMissing(toks) == Reply("ERROR", ", key missing in {}\n", toks)

\* C14: `get k` whose last command on k before it is `delete k` is answered
\* `ERROR, missing key k`.  `delete k` on an absent key never ends its
\* handler or closes its socket, leaves the store as its call found it, and
\* is answered with the key-missing error, the lock released.
C14_DeleteThenMissing ==
    \A c \in Conns :
        /\ (Replied(c) /\ repositoryOperation[c] = <<W_get, K>>)
           => LET j == LastTouch(applied, Mine(c) - 1, K) IN
              (j > 0 /\ IsDelete(applied[j].toks, K))
              => reply[c] = Reply("ERROR", ", missing key {}\n", <<K>>)
        /\ ( /\ repositoryOperation[c] = <<W_delete, K>>
             /\ expect[c] # NoReply
             /\ ~KeyPresent(applied, Mine(c) - 1, K) )
           => /\ pc[c] \in {"call", "incall", "release", "send", "recv"}
              /\ sock[c] = "open"
              /\ pc[c] = "release" => store = snap[c] /\ ~Has(store, K)
              /\ pc[c] \in {"send", "recv"}
                 => reply[c] = KeyMissing(<<W_delete, K>>) /\ lock # c

\* `get k` found k missing after k was added and deleted
GetAfterDelete ==
    /\ Answered("c1") /\ nrecv["c1"] = 3
    /\ applied = << [conn |-> "c1", toks |-> <<W_add, K, <<"1">>>>],
                    [conn |-> "c1", toks |-> <<W_delete, K>>],
                    [conn |-> "c1", toks |-> <<W_get, K>>] >>
    /\ reply["c1"] = Reply("ERROR", ", missing key {}\n", <<K>>)

\* C14 witness: one connection deleted the absent key k twice, was told both
\* times that the key is missing and still has its socket
C14_Witness ==
    /\ Answered("c1") /\ nrecv["c1"] = 2
    /\ applied = << [conn |-> "c1", toks |-> <<W_delete, K>>],
                    [conn |-> "c1", toks |-> <<W_delete, K>>] >>
    /\ reply["c1"] = KeyMissing(<<W_delete, K>>)
    /\ store = EmptyStore
    /\ lock = "free"
    /\ sock["c1"] = "open"

\* the command adds to, sets or deletes some key, or resets
Mutation(toks) ==
    IsReset(toks) \/ (Len(toks) >= 2 /\ toks[1] \in {W_add, W_set, W_delete})

\* the last mutating command among the first n of record h, 0 if none
LastMutation(h, n) ==
    LET S == {i \in 1..n : Mutation(h[i].toks)}
    IN  IF S = {} THEN 0 ELSE CHOOSE i \in S : \A j \in S : j <= i

\* the keys present after the first n commands of record h, in the order
\* they came
RECURSIVE KeysAfter(_, _)
KeysAfter(h, n) ==
    IF n = 0 THEN <<>>
    ELSE LET prev == KeysAfter(h, n - 1)
             toks == h[n].toks
         IN  IF IsReset(toks) THEN <<>>
             ELSE IF Len(toks) >= 2 /\ toks[1] \in {W_add, W_set}
             THEN IF \E i \in 1..Len(prev) : prev[i] = toks[2]
                  THEN prev ELSE Append(prev, toks[2])
             ELSE IF Len(toks) >= 2 /\ toks[1] = W_delete
             THEN SelectSeq(prev, LAMBDA x : x # toks[2])
             ELSE prev

EmptyRepository == Reply("OK", ", empty repository\n", <<>>)

\* C15: `reset` is answered OK; `keys` whose last mutating command before it,
\* from any connection, is a reset is answered `OK, empty repository`; and
\* `keys` on a store that holds keys is answered OK with all of them.
C15_ResetThenKeysEmpty ==
    \A c \in Conns :
        /\ (Replied(c) /\ repositoryOperation[c] = <<W_reset>>)
           => reply[c] = Reply("OK", "\n", <<>>)
        /\ (Replied(c) /\ repositoryOperation[c] = <<W_keys>>)
           => LET j  == LastMutation(applied, Mine(c) - 1)
                  ks == KeysAfter(applied, Mine(c) - 1)
              IN  /\ (j > 0 /\ IsReset(applied[j].toks)) => reply[c] = EmptyRepository
                  /\ ks # <<>> => reply[c] = Reply("OK", " {}, ...\n", ks)
                  /\ ks = <<>> => reply[c] = EmptyRepository

\* `keys` listed the two keys the store held
KeysListed ==
    /\ Answered("c1") /\ nrecv["c1"] = 1
    /\ applied = << [conn |-> "c2", toks |-> <<W_add, <<"j">>, <<"1">>>>],
                    [conn |-> "c2", toks |-> <<W_add, K, <<"1">>>>],
                    [conn |-> "c1", toks |-> <<W_keys>>] >>
    /\ reply["c1"] = Reply("OK", " {}, ...\n", << <<"j">>, K >>)

\* C15 witness: a store that held k was reset by one connection, and the
\* other connection's `keys` found the repository empty
C15_Witness ==
    /\ Answered("c2") /\ nrecv["c2"] = 1
    /\ Answered("c1") /\ nrecv["c1"] = 2
    /\ applied = << [conn |-> "c1", toks |-> <<W_add, K, <<"1">>>>],
                    [conn |-> "c1", toks |-> <<W_reset>>],
                    [conn |-> "c2", toks |-> <<W_keys>>] >>
    /\ reply["c1"] = Reply("OK", "\n", <<>>)
    /\ reply["c2"] = EmptyRepository

\* C16: a handler runs, reads or replies only on a connection the greeting
\* was already written to, so the greeting is the first line on it; and the
\* accept loop never waits for a client: with a connection at hand it can
\* take its next step, and without one it can accept whoever is not connected.
C16_GreetingFirst ==
    \A c \in Conns :
        /\ pc[c] # "idle" => greeted[c]
        /\ (nrecv[c] > 0 \/ nsent[c] > 0) => greeted[c]
        /\ listener.conn = c => ENABLED (Greet(c) \/ Start(c))
        /\ (listener = Accepting /\ sock[c] = "none") => ENABLED Accept(c)

\* C16 witness: the first client was greeted and has sent nothing, its
\* handler waiting in its read, and the loop has accepted, greeted and
\* started the second client
C16_Witness ==
    /\ greeted["c1"] /\ pc["c1"] = "recv" /\ nrecv["c1"] = 0
    /\ greeted["c2"] /\ pc["c2"] = "recv" /\ nrecv["c2"] = 0
    /\ listener = Accepting

\* C17: a handler past a decoded, non-empty chunk whose first token is not
\* quit has not closed its socket or ended, and once it is through with the
\* chunk it has a reply for it; a first token that only begins with the
\* letters quit is answered as a malformed operation.
C17_NonQuitForwarded ==
    \A c \in Conns :
        (Past(c) /\ Decodable(data[c]) /\ data[c] # EOF /\ ~FirstTokenQuit(data[c]))
        => /\ pc[c] \notin {"closed", "crashed"}
           /\ sock[c] = "open"
           /\ pc[c] \in {"send", "recv"} => reply[c] # NoReply
           /\ (pc[c] \in {"send", "recv"} /\ StartsWith(data[c], W_quit))
              => reply[c] = Malformed(Tokens(data[c]))

\* C18: a handler holds the lock only between entering and leaving the
\* `with` block of its command: not while it waits in its read, decodes,
\* parses, waits for the lock, logs, writes its reply, or after it has ended;
\* and a handler waiting for the lock finds it free whenever every other
\* handler is idle, reading, replying or dead.
C18_OnlyLockSectionHoldsLock ==
    \A c \in Conns :
        /\ lock = c => pc[c] \in {"call", "incall", "release"}
        /\ ( /\ pc[c] = "acquire"
             /\ \A d \in Conns \ {c} :
                    pc[d] \in {"idle", "recv", "send", "closed", "crashed"} )
           => lock = "free"

\* C18 witness: c1's `delete k` raised KeyError in its store call and c1 is
\* back in its read, while c2 holds the lock
C18_Witness ==
    /\ Answered("c1") /\ data["c1"] = DELETE_K
    /\ reply["c1"] = KeyMissing(<<W_delete, K>>)
    /\ lock = "c2"

\* C19: a handler waits for the lock once per command, never again after it
\* has had it, and while it holds the lock no reply exists yet for its
\* command: every branch, keys included, builds its reply after the release.
C19_ReplyBuiltAfterRelease ==
    \A c \in Conns :
        /\ pc[c] = "acquire" => expect[c] = NoReply
        /\ lock = c => reply[c] = NoReply

\* the tokens of an add command whose value is missing or no integer
BadAdd(toks) ==
    /\ OpName(toks) = "add"
    /\ Len(toks) < 3 \/ ~IsInt(toks[3])

=============================================================================
